---- MODULE Spec2Model ----
(***************************************************************************)
(* Model of blender_worker.py: the environment state machine               *)
(* (SimpleBlenderEnv), the connection handler (TCPServer.handle_client)    *)
(* and the listener (TCPServer.start).                                     *)
(*                                                                         *)
(* The scene engine (bpy) is external.  The model keeps of the scene what  *)
(* the program itself reads or assigns: the list of mesh objects, each     *)
(* with its polygon count, dimensions, first bounding-box corner, UV flag  *)
(* and x location, and the active object of the view layer.  Every engine  *)
(* call the program wraps in try/except may fail; which calls fail is a    *)
(* nondeterministic input of the step.  Enumeration and attribute reads    *)
(* (bpy.data.objects, polygons, bound_box) and read_factory_settings are   *)
(* taken to succeed, and a write to a connected client is taken to         *)
(* succeed (a vanished peer shows as end-of-stream on the next read).      *)
(*                                                                         *)
(* Lengths are in whole units, locations in tenths of a unit, rewards in   *)
(* thousandths.                                                            *)
(***************************************************************************)
EXTENDS Integers, Sequences, FiniteSets, TLC

VARIABLES
    usd_path,      \* SimpleBlenderEnv.usd_path ("" stands for None)
    step_count,    \* SimpleBlenderEnv.step_count
    scene,         \* the scene held by the engine: [objs, active]
    running,       \* TCPServer.running
    client,        \* TCPServer.client: "none", "open" or "closed"
    lpc,           \* position of TCPServer.start: "accept", "handling", "finally", "stopped"
    conns,         \* accepted connections whose socket is not yet closed
    last,          \* the last iteration of handle_client: what was read, what was written
    replied_steps, \* history: step commands answered since the last executed reset
    done_seen      \* history: a step reply since the last executed reset carried done = true

vars == <<usd_path, step_count, scene, running, client, lpc, conns,
          last, replied_steps, done_seen>>

envvars == <<usd_path, step_count, scene>>

-----------------------------------------------------------------------------
(* Bounds of the model.                                                    *)

\* without an asset: step commands are served while step_count is below this
MaxStepCount == 51

\* with an asset configured: step commands are served while step_count is
\* below this
ShortRun == 3

(* Program constants.                                                      *)

\* self.max_steps
max_steps == 50

\* objs[:5]
MaxDimObjs == 5

\* while len(dims) < 15 / dims[:15]
DimsLen == 15

\* max(0, obs["n_objs"] - 6)
ObjsFree == 6

-----------------------------------------------------------------------------
(* JSON values of a request's fields.  A string is a sequence of            *)
(* one-character strings, a float is given in tenths.                       *)

JAbsent == [t |-> "absent", i |-> 0, s |-> <<>>]
JNull == [t |-> "null", i |-> 0, s |-> <<>>]
JInt(n) == [t |-> "int", i |-> n, s |-> <<>>]
JBool(b) == [t |-> "bool", i |-> IF b THEN 1 ELSE 0, s |-> <<>>]
JFloat(tenths) == [t |-> "float", i |-> tenths, s |-> <<>>]
JStr(chars) == [t |-> "str", i |-> 0, s |-> chars]

\* data.get(key, default)
Get(field, default) == IF field.t = "absent" THEN default ELSE field

\* data.get(key)
GetOrNone(field) == Get(field, JNull)

\* Python truthiness of a JSON value: `if path:`
Truthy(v) ==
    CASE v.t = "str" -> v.s # <<>>
      [] v.t \in {"int", "bool", "float"} -> v.i # 0
      [] OTHER -> FALSE

DigitChars == <<"0", "1", "2", "3", "4", "5", "6", "7", "8", "9">>

IsDigit(c) == \E k \in 1..Len(DigitChars) : DigitChars[k] = c

DigitVal(c) == (CHOOSE k \in 1..Len(DigitChars) : DigitChars[k] = c) - 1

RECURSIVE LStrip(_)
LStrip(s) == IF s # <<>> /\ Head(s) = " " THEN LStrip(Tail(s)) ELSE s

RECURSIVE RStrip(_)
RStrip(s) ==
    IF s # <<>> /\ s[Len(s)] = " " THEN RStrip(SubSeq(s, 1, Len(s) - 1)) ELSE s

RECURSIVE DigitsVal(_, _)
DigitsVal(s, acc) ==
    IF s = <<>> THEN acc ELSE DigitsVal(Tail(s), 10 * acc + DigitVal(Head(s)))

ConvOk(n) == [ok |-> TRUE, val |-> n]
ConvErr == [ok |-> FALSE, val |-> 0]

\* int(str): surrounding blanks stripped, an optional sign, then decimal digits
\* (digit-group underscores are not among the inputs drawn)
ParseIntStr(chars) ==
    LET body == RStrip(LStrip(chars))
        signed == body # <<>> /\ Head(body) \in {"+", "-"}
        digits == IF signed THEN Tail(body) ELSE body
    IN  IF digits = <<>> \/ \E k \in 1..Len(digits) : ~IsDigit(digits[k])
        THEN ConvErr
        ELSE IF signed /\ Head(body) = "-"
             THEN ConvOk(0 - DigitsVal(digits, 0))
             ELSE ConvOk(DigitsVal(digits, 0))

\* int(x) of line 160: truncation toward zero for a float, parsing for a
\* string, ValueError / TypeError for anything else
PyInt(v) ==
    CASE v.t \in {"int", "bool"} -> ConvOk(v.i)
      [] v.t = "float" ->
           ConvOk(IF v.i >= 0 THEN v.i \div 10 ELSE 0 - ((0 - v.i) \div 10))
      [] v.t = "str" -> ParseIntStr(v.s)
      [] OTHER -> ConvErr

-----------------------------------------------------------------------------
(* Scenes.                                                                  *)

Obj(polys, dims, bbox0, uv, locx) ==
    [polys |-> polys, dims |-> dims, bbox0 |-> bbox0, uv |-> uv, locx |-> locx]

\* read_factory_settings(use_empty=True): no objects, no active object
EmptyScene == [objs |-> <<>>, active |-> 0]

\* what the process finds loaded before the first reset: the startup file,
\* with one mesh
StartupScene ==
    [objs |-> << Obj(2, <<2, 2, 2>>, <<-1, -1, -1>>, FALSE, 5) >>, active |-> 1]

\* the meshes usd_import brings in from the configured asset
AssetScene ==
    [objs |-> << Obj(1, <<0, 1, 3>>, <<0, 0, -1>>, FALSE, 0),
                 Obj(1, <<2, 1, 1>>, <<-2, 0, 0>>, TRUE, 7) >>,
     active |-> 0]

-----------------------------------------------------------------------------
(* SimpleBlenderEnv.                                                        *)

RECURSIVE SumPolys(_)
SumPolys(objs) ==
    IF objs = <<>> THEN 0 ELSE Head(objs).polys + SumPolys(Tail(objs))

\* for o in objs[:5]: dims += [o.dimensions.x, o.dimensions.y, o.dimensions.z]
RECURSIVE ConcatDims(_)
ConcatDims(objs) ==
    IF objs = <<>> THEN <<>> ELSE Head(objs).dims \o ConcatDims(Tail(objs))

\* while len(dims) < 15: dims.append(0.0)
RECURSIVE PadDims(_)
PadDims(dims) == IF Len(dims) < DimsLen THEN PadDims(Append(dims, 0)) ELSE dims

\* a variant of GetObs: the polygons of the listed objects only are counted
GetObsTrisOfFirsts(sc) ==
    LET objs == sc.objs
        firsts == SubSeq(objs, 1, IF Len(objs) < MaxDimObjs THEN Len(objs) ELSE MaxDimObjs)
        padded == PadDims(ConcatDims(firsts))
    IN  [n_objs |-> Len(objs),
         n_tris |-> IF objs # <<>> THEN SumPolys(firsts) ELSE 0,
         bbox0 |-> IF objs # <<>> THEN objs[1].bbox0 ELSE <<0, 0, 0>>,
         dims |-> SubSeq(padded, 1, DimsLen)]

\* _get_obs
GetObs(sc) ==
    LET objs == sc.objs
        firsts == SubSeq(objs, 1, IF Len(objs) < MaxDimObjs THEN Len(objs) ELSE MaxDimObjs)
        padded == PadDims(ConcatDims(firsts))
    IN  [n_objs |-> Len(objs),
         n_tris |-> IF objs # <<>> THEN SumPolys(objs) ELSE 0,
         bbox0 |-> IF objs # <<>> THEN objs[1].bbox0 ELSE <<0, 0, 0>>,
         dims |-> SubSeq(padded, 1, DimsLen)]

Max0(n) == IF n > 0 THEN n ELSE 0

\* a variant of ComputeReward: the object count is not penalised
ComputeRewardTrisOnly(obs) == 0 - obs.n_tris

\* _compute_reward, in thousandths
ComputeReward(obs) == (0 - obs.n_tris) - 10 * Max0(obs.n_objs - ObjsFree)

\* what each engine call of one object's turn in the loop of `action` may do
Outcomes(action) ==
    CASE action \in {0, 1} -> {"ok", "active_fails", "op_fails"}
      [] action = 2 -> {"ok", "active_fails", "op_fails", "leave_fails"}
      [] action = 3 -> {"ok", "loc_fails", "dim_fails"}
      [] OTHER -> {"ok"}

\* the DECIMATE modifier with ratio 0.85, applied
Decimated(o) == [o EXCEPT !.polys = (o.polys * 85) \div 100]

\* one call into the scene engine that changes the scene: what is called
\* and the index of the object it is called for
Call(op, k) == <<op, k>>

Raised(sc, calls) == [raised |-> TRUE, sc |-> sc, calls |-> calls]
Returned(sc, calls) == [raised |-> FALSE, sc |-> sc, calls |-> calls]

\* action 0: the active object is set outside the try, the modifier inside it
RECURSIVE DecimateAll(_, _, _, _)
DecimateAll(sc, outs, k, calls) ==
    IF k > Len(sc.objs) THEN Returned(sc, calls)
    ELSE IF outs[k] = "active_fails" THEN Raised(sc, Append(calls, Call("active", k)))
    ELSE LET act == [sc EXCEPT !.active = k]
         IN  DecimateAll(IF outs[k] = "ok"
                         THEN [act EXCEPT !.objs[k] = Decimated(@)]
                         ELSE act,
                         outs, k + 1,
                         calls \o << Call("active", k), Call("decimate", k) >>)

\* action 1: merge by distance in edit mode; everything inside the try.
\* remove_doubles(threshold=0.0005) changes none of the attributes kept here
RECURSIVE MergeAll(_, _, _, _)
MergeAll(sc, outs, k, calls) ==
    IF k > Len(sc.objs) THEN Returned(sc, calls)
    ELSE IF outs[k] = "active_fails"
    THEN MergeAll(sc, outs, k + 1, Append(calls, Call("active", k)))
    ELSE MergeAll([sc EXCEPT !.active = k], outs, k + 1,
                  calls \o << Call("active", k), Call("merge", k) >>)

\* action 2: smart UV project for the objects without UV layers
RECURSIVE UnwrapAll(_, _, _, _)
UnwrapAll(sc, outs, k, calls) ==
    IF k > Len(sc.objs) THEN Returned(sc, calls)
    ELSE IF outs[k] = "active_fails"
    THEN UnwrapAll(sc, outs, k + 1, Append(calls, Call("active", k)))
    ELSE LET act == [sc EXCEPT !.active = k]
         IN  IF sc.objs[k].uv
             THEN UnwrapAll(act, outs, k + 1, Append(calls, Call("active", k)))
             ELSE UnwrapAll(IF outs[k] \in {"ok", "leave_fails"}
                            THEN [act EXCEPT !.objs[k].uv = TRUE]
                            ELSE act,
                            outs, k + 1,
                            calls \o << Call("active", k), Call("unwrap", k) >>)

\* action 3: lay the objects out along x; x is the running offset, in tenths
RECURSIVE LayoutAll(_, _, _, _, _)
LayoutAll(sc, outs, k, x, calls) ==
    IF k > Len(sc.objs) THEN Returned(sc, calls)
    ELSE IF outs[k] = "loc_fails"
    THEN LayoutAll(sc, outs, k + 1, x, Append(calls, Call("locate", k)))
    ELSE LET put == [sc EXCEPT !.objs[k].locx = x]
             dx == sc.objs[k].dims[1]
         IN  LayoutAll(put, outs, k + 1,
                       IF outs[k] = "dim_fails" THEN x
                       ELSE x + (IF dx > 0 THEN dx ELSE 1) * 13,
                       Append(calls, Call("locate", k)))

\* a variant of Dispatch: an action outside 0..3 falls into the first branch
DispatchDefaultDecimate(sc, action, outs) ==
    CASE action = 1 -> MergeAll(sc, outs, 1, <<>>)
      [] action = 2 -> UnwrapAll(sc, outs, 1, <<>>)
      [] action = 3 -> LayoutAll(sc, outs, 1, 0, <<>>)
      [] OTHER -> DecimateAll(sc, outs, 1, <<>>)

\* lines 61-105 of step: the dispatch on the action
Dispatch(sc, action, outs) ==
    CASE action = 0 -> DecimateAll(sc, outs, 1, <<>>)
      [] action = 1 -> MergeAll(sc, outs, 1, <<>>)
      [] action = 2 -> UnwrapAll(sc, outs, 1, <<>>)
      [] action = 3 -> LayoutAll(sc, outs, 1, 0, <<>>)
      [] OTHER -> Returned(sc, <<>>)

\* a variant of IsDone: done only once the limit has been passed
IsDoneLate(count) == count > max_steps

\* done = self.step_count >= self.max_steps
IsDone(count) == count >= max_steps

\* a variant of Incremented: the counter left as it was
NotIncremented(count) == count

\* self.step_count += 1
Incremented(count) == count + 1

\* step(action): the scene and counter it leaves, and what it returns or
\* that it raised
EnvStep(sc, count, action, outs) ==
    LET d == Dispatch(sc, action, outs)
        obs == GetObs(d.sc)
    IN  IF d.raised
        THEN [raised |-> TRUE, sc |-> d.sc, calls |-> d.calls, count |-> count,
              obs |-> obs, reward |-> 0, done |-> FALSE]
        ELSE [raised |-> FALSE, sc |-> d.sc, calls |-> d.calls,
              count |-> Incremented(count),
              obs |-> obs, reward |-> ComputeReward(obs),
              done |-> IsDone(Incremented(count))]

\* a variant of ResetScene: read_factory_settings is skipped when nothing
\* is imported
ResetSceneKeeps(path, exists, imports) ==
    IF path # "" /\ exists /\ imports THEN AssetScene ELSE scene

\* the scene reset() leaves: the empty factory scene, plus the asset when one
\* is configured, exists and imports (an import that raises adds nothing)
ResetScene(path, exists, imports) ==
    IF path # "" /\ exists /\ imports THEN AssetScene ELSE EmptyScene

\* reset(): the scene and counter it leaves, and the observation it returns
EnvReset(path, exists, imports) ==
    LET sc == ResetScene(path, exists, imports)
    IN  [sc |-> sc, count |-> 0, obs |-> GetObs(sc)]

-----------------------------------------------------------------------------
(* Request lines.                                                           *)

S_reset == <<"r", "e", "s", "e", "t">>
S_step == <<"s", "t", "e", "p">>
S_ping == <<"p", "i", "n", "g">>
S_save == <<"s", "a", "v", "e">>
S_close == <<"c", "l", "o", "s", "e">>
S_bogus == <<"b", "o", "g", "u", "s">>
S_out == <<"o", "u", "t">>

\* json: "invalid" (json.loads raises), "value" (valid JSON that is no
\* object: a list, a number, a string, null) or "object"
Line(json, cmd, action, path) ==
    [json |-> json, cmd |-> cmd, action |-> action, path |-> path]

Request(cmd, action, path) == Line("object", cmd, action, path)

NoLine == Line("none", JAbsent, JAbsent, JAbsent)
InvalidLine == Line("invalid", JAbsent, JAbsent, JAbsent)
ValueLine == Line("value", JAbsent, JAbsent, JAbsent)

\* the action fields a step request is drawn with
ActionFields ==
    { JAbsent, JInt(0), JInt(1), JInt(2), JInt(3), JInt(4), JInt(99), JInt(-1),
      JBool(TRUE), JFloat(29), JStr(<<" ", "3">>), JStr(<<"a", "b", "c">>), JNull }

\* the path fields a save request is drawn with
PathFields == { JAbsent, JStr(<<>>), JStr(S_out), JInt(5) }

\* cmd values that name no command
OtherCmds == { JAbsent, JStr(S_bogus), JInt(1) }

ResetLine == Request(JStr(S_reset), JAbsent, JAbsent)
PingLine == Request(JStr(S_ping), JAbsent, JAbsent)
CloseLine == Request(JStr(S_close), JAbsent, JAbsent)
StepLines == { Request(JStr(S_step), a, JAbsent) : a \in ActionFields }
SaveLines == { Request(JStr(S_save), JAbsent, p) : p \in PathFields }
OtherLines == { Request(c, JAbsent, JAbsent) : c \in OtherCmds }

\* the branch of the if/elif chain of lines 154-182 a parsed object takes
Branch(line) ==
    LET cmd == GetOrNone(line.cmd)
    IN  CASE cmd = JStr(S_reset) -> "reset"
          [] cmd = JStr(S_step) -> "step"
          [] cmd = JStr(S_ping) -> "ping"
          [] cmd = JStr(S_save) -> "save"
          [] cmd = JStr(S_close) -> "close"
          [] OTHER -> "unknown"

\* one iteration of the handler's loop, as recorded in `last`: the line
\* read, the branch taken, the replies written and the calls made into the
\* scene engine that change the scene
Iter(kind, line, replies) ==
    [kind |-> kind, line |-> line, replies |-> replies, calls |-> <<>>]

NoIter == Iter("none", NoLine, <<>>)

-----------------------------------------------------------------------------
(* Replies: the JSON objects the handler writes.                            *)

ObsReply(obs) == [obs |-> obs]

StepReply(r) == [obs |-> r.obs, reward |-> r.reward, done |-> r.done, info |-> <<>>]

PongReply == [pong |-> TRUE]

SavedReply(path) == [saved |-> TRUE, path |-> path]

NotSavedReply(error) == [saved |-> FALSE, error |-> error]

ClosedReply == [closed |-> TRUE]

UnknownReply == [error |-> "unknown_cmd"]

\* f.write(...); f.flush(): the replies written so far, with one more
Write(replies, reply) == Append(replies, reply)

-----------------------------------------------------------------------------
(* The state after construction (lines 19-22, 116-123, 195-198) with the    *)
(* listener bound and about to accept.                                      *)

Configured(path) ==
    /\ usd_path = path
    /\ step_count = 0
    /\ scene = StartupScene
    /\ running = TRUE
    /\ client = "none"
    /\ lpc = "accept"
    /\ conns = 0
    /\ last = NoIter
    /\ replied_steps = 0
    /\ done_seen = FALSE

\* started without --usd
Init == Configured("")

\* started with --usd scene.usda
AssetInit == Configured("scene.usda")

-----------------------------------------------------------------------------
(* The listener: TCPServer.start.                                           *)

\* a variant of AtAccept: accept is called again while the handler runs
AtAcceptOrHandling == lpc \in {"accept", "handling"}

\* the position from which accept() is called
AtAccept == lpc = "accept"

\* self.client, addr = self.sock.accept(); self.handle_client(self.client):
\* a connection attempt is pending and accept returns it
\* a variant of Accept: the episode starts over with each connection
AcceptFresh ==
    /\ AtAccept
    /\ conns' = conns + 1
    /\ client' = "open"
    /\ lpc' = "handling"
    /\ last' = NoIter
    /\ step_count' = 0
    /\ UNCHANGED <<usd_path, scene, running, replied_steps, done_seen>>

Accept ==
    /\ AtAccept
    /\ conns' = conns + 1
    /\ client' = "open"
    /\ lpc' = "handling"
    /\ last' = NoIter
    /\ UNCHANGED <<envvars, running, replied_steps, done_seen>>

\* a variant of AfterFinally: an exception of the handler leaves the loop
AfterFinallyUnlessRaised ==
    IF running /\ last.kind # "raised" THEN "accept" ELSE "stopped"

\* where the loop of start goes after the finally clause: while self.running
AfterFinally == IF running THEN "accept" ELSE "stopped"

\* except Exception: traceback.print_exc(); finally: self.client.close()
CloseClient ==
    /\ lpc = "finally"
    /\ client' = "closed"
    /\ conns' = conns - 1
    /\ lpc' = AfterFinally
    /\ UNCHANGED <<envvars, running, last, replied_steps, done_seen>>

-----------------------------------------------------------------------------
(* The connection handler: TCPServer.handle_client.  One action is one      *)
(* iteration of its loop: the read of a line, the dispatch, the reply       *)
(* written and flushed, and the return to readline or the exit.             *)

\* the handler is blocked in f.readline()
AtRead == lpc = "handling"

\* where an iteration leaves the listener: back at readline, or out of
\* handle_client (break, or an exception) and into the finally clause
After(continues) == IF continues THEN "handling" ELSE "finally"

\* line 146: if not line: break
ReadEOF ==
    /\ AtRead
    /\ last' = Iter("eof", NoLine, <<>>)
    /\ lpc' = After(FALSE)
    /\ UNCHANGED <<envvars, running, client, conns, replied_steps, done_seen>>

\* a variant of BadJson: the line is logged and the loop goes on
BadJsonContinues ==
    /\ AtRead
    /\ last' = Iter("invalid", InvalidLine, <<>>)
    /\ lpc' = After(TRUE)
    /\ UNCHANGED <<envvars, running, client, conns, replied_steps, done_seen>>

\* lines 148-152: json.loads raises; the line is logged and the loop left
BadJson ==
    /\ AtRead
    /\ last' = Iter("invalid", InvalidLine, <<>>)
    /\ lpc' = After(FALSE)
    /\ UNCHANGED <<envvars, running, client, conns, replied_steps, done_seen>>

\* line 153: data.get on a JSON value that is no object raises AttributeError
NotObject ==
    /\ AtRead
    /\ last' = Iter("raised", ValueLine, <<>>)
    /\ lpc' = After(FALSE)
    /\ UNCHANGED <<envvars, running, client, conns, replied_steps, done_seen>>

\* lines 154-158
HandleReset ==
    /\ AtRead
    /\ Branch(ResetLine) = "reset"
    /\ \E exists \in BOOLEAN, imports \in BOOLEAN :
         LET r == EnvReset(usd_path, exists, imports)
         IN  /\ scene' = r.sc
             /\ step_count' = r.count
             /\ last' = Iter("reset", ResetLine, Write(<<>>, ObsReply(r.obs)))
    /\ lpc' = After(TRUE)
    /\ replied_steps' = 0
    /\ done_seen' = FALSE
    /\ UNCHANGED <<usd_path, running, client, conns>>

\* a variant of StepAction: a missing action field stands for action 1
StepActionDefaultOne(line) == PyInt(Get(line.action, JInt(1)))

\* line 160: int(data.get("action", 0))
StepAction(line) == PyInt(Get(line.action, JInt(0)))

\* a variant of StepIter: a step after done is turned away with the handler
\* left, nothing dispatched and nothing counted
StepIterRejectsDone(line, outs, conv) ==
    LET r == EnvStep(scene, step_count, conv.val, outs)
    IN  IF ~conv.ok \/ IsDone(step_count)
        THEN [scene |-> scene, count |-> step_count,
              iter |-> Iter("raised", line, <<>>), continues |-> FALSE]
        ELSE IF r.raised
        THEN [scene |-> r.sc, count |-> r.count,
              iter |-> [Iter("raised", line, <<>>) EXCEPT !.calls = r.calls],
              continues |-> FALSE]
        ELSE [scene |-> r.sc, count |-> r.count,
              iter |-> [Iter("step", line, Write(<<>>, StepReply(r)))
                            EXCEPT !.calls = r.calls],
              continues |-> TRUE]

\* lines 159-164: the step branch for one request line and one choice of
\* the engine calls that fail
StepIter(line, outs, conv) ==
    LET r == EnvStep(scene, step_count, conv.val, outs)
    IN  IF ~conv.ok
        THEN [scene |-> scene, count |-> step_count,
              iter |-> Iter("raised", line, <<>>), continues |-> FALSE]
        ELSE IF r.raised
        THEN [scene |-> r.sc, count |-> r.count,
              iter |-> [Iter("raised", line, <<>>) EXCEPT !.calls = r.calls],
              continues |-> FALSE]
        ELSE [scene |-> r.sc, count |-> r.count,
              iter |-> [Iter("step", line, Write(<<>>, StepReply(r)))
                            EXCEPT !.calls = r.calls],
              continues |-> TRUE]

HandleStepOf(lines, bound) ==
    /\ AtRead
    /\ step_count < bound
    /\ \E line \in lines :
         LET conv == StepAction(line)
         IN  /\ Branch(line) = "step"
             /\ \E outs \in [1..Len(scene.objs) -> Outcomes(conv.val)] :
                  LET it == StepIter(line, outs, conv)
                      answered == it.iter.replies # <<>>
                  IN  /\ scene' = it.scene
                      /\ step_count' = it.count
                      /\ last' = it.iter
                      /\ lpc' = After(it.continues)
                      /\ replied_steps' = IF answered THEN replied_steps + 1
                                          ELSE replied_steps
                      /\ done_seen' = (done_seen \/
                                       (answered /\ it.iter.replies[1].done))
    /\ UNCHANGED <<usd_path, running, client, conns>>

HandleStep(bound) == HandleStepOf(StepLines, bound)

\* a variant of PingIter: the loop is left after the pong
PingIterCloses == [iter |-> Iter("ping", PingLine, Write(<<>>, PongReply)), continues |-> FALSE]

\* lines 165-166
PingIter == [iter |-> Iter("ping", PingLine, Write(<<>>, PongReply)), continues |-> TRUE]

HandlePing ==
    /\ AtRead
    /\ Branch(PingLine) = "ping"
    /\ last' = PingIter.iter
    /\ lpc' = After(PingIter.continues)
    /\ UNCHANGED <<envvars, running, client, conns, replied_steps, done_seen>>

\* a variant of SaveIter: no except clause around the export
SaveIterUncaught(line, exported) ==
    LET path == GetOrNone(line.path)
    IN  IF Truthy(path)
        THEN IF path.t = "str" /\ exported
             THEN [iter |-> Iter("save", line, Write(<<>>, SavedReply(path))),
                   continues |-> TRUE]
             ELSE [iter |-> Iter("raised", line, <<>>), continues |-> FALSE]
        ELSE [iter |-> Iter("save", line, Write(<<>>, NotSavedReply("no path"))),
              continues |-> TRUE]

\* lines 169-177: usd_export raises TypeError for a filepath that is no
\* string, or fails in the engine; the except clause answers with str(e)
SaveIter(line, exported) ==
    LET path == GetOrNone(line.path)
        reply == IF Truthy(path)
                 THEN IF path.t # "str" THEN NotSavedReply("TypeError")
                      ELSE IF exported THEN SavedReply(path)
                      ELSE NotSavedReply("RuntimeError")
                 ELSE NotSavedReply("no path")
    IN  [iter |-> Iter("save", line, Write(<<>>, reply)), continues |-> TRUE]

HandleSave ==
    /\ AtRead
    /\ \E line \in SaveLines, exported \in BOOLEAN :
         /\ Branch(line) = "save"
         /\ last' = SaveIter(line, exported).iter
         /\ lpc' = After(SaveIter(line, exported).continues)
    /\ UNCHANGED <<envvars, running, client, conns, replied_steps, done_seen>>

\* a variant of CloseIter: no break after the reply
CloseIterContinues == [iter |-> Iter("close", CloseLine, Write(<<>>, ClosedReply)), continues |-> TRUE]

\* lines 178-180
CloseIter == [iter |-> Iter("close", CloseLine, Write(<<>>, ClosedReply)), continues |-> FALSE]

HandleClose ==
    /\ AtRead
    /\ Branch(CloseLine) = "close"
    /\ last' = CloseIter.iter
    /\ lpc' = After(CloseIter.continues)
    /\ UNCHANGED <<envvars, running, client, conns, replied_steps, done_seen>>

\* a variant of UnknownIter: the loop is left after the error reply
UnknownIterCloses(line) ==
    [iter |-> Iter("unknown", line, Write(<<>>, UnknownReply)), continues |-> FALSE]

\* a variant of UnknownIter: nothing is written
UnknownIterSilent(line) == [iter |-> Iter("unknown", line, <<>>), continues |-> TRUE]

\* lines 181-182
UnknownIter(line) ==
    [iter |-> Iter("unknown", line, Write(<<>>, UnknownReply)), continues |-> TRUE]

HandleUnknown ==
    /\ AtRead
    /\ \E line \in OtherLines :
         /\ Branch(line) = "unknown"
         /\ last' = UnknownIter(line).iter
         /\ lpc' = After(UnknownIter(line).continues)
    /\ UNCHANGED <<envvars, running, client, conns, replied_steps, done_seen>>

-----------------------------------------------------------------------------

\* the listener and the handler, serving step commands below `bound`
Serve(bound) ==
    \/ Accept
    \/ CloseClient
    \/ ReadEOF
    \/ BadJson
    \/ NotObject
    \/ HandleReset
    \/ HandleStep(bound)
    \/ HandlePing
    \/ HandleSave
    \/ HandleClose
    \/ HandleUnknown

Next == Serve(MaxStepCount)

Spec == Init /\ [][Next]_vars

\* the listener is one sequential thread: once handle_client has returned or
\* raised, the finally clause runs
LiveSpec == Spec /\ WF_vars(CloseClient)

AssetNext == Serve(ShortRun)

\* the worker started with an asset configured
AssetSpec == AssetInit /\ [][AssetNext]_vars

\* the worker started either way
ResetInit == Init \/ AssetInit

ResetSpec == ResetInit /\ [][AssetNext]_vars

\* the scenes of the observation checks hold up to this many meshes
MaxObjs == 7

\* and their runs take this many steps
ObsRun == 2

\* two meshes that differ in every attribute the program reads
ObjKinds ==
    { Obj(3, <<1, 2, 3>>, <<-1, 0, 0>>, FALSE, 0),
      Obj(1, <<4, 0, 2>>, <<0, -2, 1>>, TRUE, 3) }

\* the scenes the worker may be started in: bpy.data.objects holds whatever
\* meshes the opened file has
ObsScenes ==
    { [objs |-> s, active |-> 0] : s \in UNION { [1..n -> ObjKinds] : n \in 0..MaxObjs } }

\* started without --usd in any of these scenes
ObsInit ==
    /\ usd_path = ""
    /\ step_count = 0
    /\ scene \in ObsScenes
    /\ running = TRUE
    /\ client = "none"
    /\ lpc = "accept"
    /\ conns = 0
    /\ last = NoIter
    /\ replied_steps = 0
    /\ done_seen = FALSE

\* step requests whose action takes no branch of lines 62-105
NoopLines == { Request(JStr(S_step), a, JAbsent) : a \in {JInt(4), JInt(99), JInt(-1)} }

\* sessions of resets and of steps that leave the scene as it is
ObsNext ==
    \/ Accept
    \/ CloseClient
    \/ ReadEOF
    \/ HandleReset
    \/ HandleStepOf(NoopLines, ObsRun)

ObsSpec == ObsInit /\ [][ObsNext]_vars

-----------------------------------------------------------------------------
(* Properties.                                                              *)

\* the transition answered a step command
StepAnswered == replied_steps' = replied_steps + 1

\* the reply of the last iteration, when it wrote one
LastReply == last.replies[1]

\* C1: in every step reply, done is true exactly when the step counter after
\* the step's increment is >= max_steps; and once a step reply has carried
\* done = true, every later step reply carries done = true, whatever else is
\* served and however many connections end in between, until a reset is
\* executed.
C1_DoneAtLimit ==
    /\ [](last.kind = "step" => (LastReply.done <=> step_count >= max_steps))
    /\ [][(done_seen /\ StepAnswered) =>
            (last'.kind = "step" /\ last'.replies[1].done)]_vars

\* C1 witness: a step answered after done had already been reported
C1_Witness ==
    /\ last.kind = "step"
    /\ LastReply.done
    /\ step_count > max_steps

\* C2: step_count equals the number of step commands answered since the
\* most recent executed reset (since the start when there was none); only a
\* reset lowers it, and to 0; an iteration that is neither a reset nor an
\* answered step, a session end and an accept leave it unchanged.
C2_CountsAnsweredSteps ==
    /\ [](step_count = replied_steps)
    /\ [][step_count' < step_count => (last'.kind = "reset" /\ step_count' = 0)]_vars
    /\ [][last'.kind \notin {"reset", "step"} => step_count' = step_count]_vars

\* C2 witness: steps were answered, then one raised, and the session is over
C2_Witness ==
    /\ step_count = 2
    /\ last.kind = "raised"
    /\ Branch(last.line) = "step"
    /\ lpc = "accept"

\* the converted action of the last line read, had it been a step request
LastAction == PyInt(Get(last.line.action, JInt(0)))

\* C3: every line read that is valid JSON, whatever value it holds and
\* whatever the types of its fields, is answered with exactly one reply.
\* (Fails: a JSON value that is no object, or an action that int() rejects,
\* raises out of the handler and is never answered.)
C3_ValidJsonAnswered ==
    last.line.json \in {"value", "object"} => Len(last.replies) = 1

\* C4: a step whose action is in {0,1,2,3} survives the failure of any
\* engine call made for any object: it is answered as a step.
\* (Fails: for action 0 the active object is set outside the try.)
C4_StepSurvivesFailures ==
    (/\ last.line.json = "object"
     /\ Branch(last.line) = "step"
     /\ LastAction.ok
     /\ LastAction.val \in 0..3)
    => (last.kind = "step" /\ Len(last.replies) = 1)

\* C5: a line that is not valid JSON ends the current session only: nothing
\* is written for it, the environment (step_count, scene) is unchanged by it
\* and by the end of the session, the listener keeps running and comes back
\* to accept, where the next connection is accepted and its commands served
\* from the unchanged environment.
C5_BadJsonEndsSessionOnly ==
    /\ [](last.kind = "invalid" =>
            (last.replies = <<>> /\ lpc \in {"finally", "accept"} /\ running))
    /\ [][last'.kind = "invalid" =>
            UNCHANGED <<usd_path, step_count, scene, replied_steps, done_seen>>]_vars
    /\ []((last.kind = "invalid" /\ lpc = "accept") => ENABLED Accept)
    /\ [](AtRead => (ENABLED HandlePing /\ ENABLED HandleReset))

\* C5 witness: an episode was under way, a malformed line ended the
\* session, and the listener is back at accept with the socket closed
C5_Witness ==
    /\ last.kind = "invalid"
    /\ lpc = "accept"
    /\ client = "closed"
    /\ step_count > 0
    /\ scene # EmptyScene

\* C6: whenever the handler has ended, by close, by end-of-stream, by a
\* malformed line or by an exception, the listener closes that connection's
\* socket and is eventually back at accept; nothing that happens in the
\* handler stops the accept loop.
C6_BackToAccept ==
    /\ [](lpc # "stopped" /\ running)
    /\ (lpc = "finally") ~> (lpc = "accept" /\ client = "closed" /\ conns = 0)

\* C6 witness: the handler raised, and the listener is back at accept
C6_Witness ==
    /\ last.kind = "raised"
    /\ lpc = "accept"
    /\ client = "closed"
    /\ conns = 0

\* C7: at most one connection is being serviced at any time: the listener
\* accepts the next one only after the handler of the current one has ended
\* and its socket is closed, and the environment changes only while exactly
\* one connection is open.
C7_OneClientAtATime ==
    /\ [](conns <= 1)
    /\ [][conns' > conns => (conns = 0 /\ client # "open" /\ lpc = "accept")]_vars
    /\ [][<<step_count, scene>>' # <<step_count, scene>> => (conns = 1 /\ conns' = 1)]_vars

\* C7 witness: a later connection has been accepted (nothing read from it
\* yet) after an earlier one stepped the environment
C7_Witness ==
    /\ lpc = "handling"
    /\ last = NoIter
    /\ conns = 1
    /\ step_count > 0

\* the branches of the handler that answer
Answering == {"reset", "step", "ping", "save", "close", "unknown"}

\* the reply is the one the branch is to write
ReplyFits(kind, reply) ==
    CASE kind = "reset" -> DOMAIN reply = {"obs"}
      [] kind = "step" -> DOMAIN reply = {"obs", "reward", "done", "info"}
      [] kind = "ping" -> reply = PongReply
      [] kind = "save" -> "saved" \in DOMAIN reply
      [] kind = "close" -> reply = ClosedReply
      [] kind = "unknown" -> reply = UnknownReply
      [] OTHER -> FALSE

\* C8: within a session reads and replies alternate: every command branch
\* writes exactly one reply, the reply of that command, before the next line
\* is read; no iteration writes more than one, and the handler is at
\* readline only with every line read so far answered.
C8_ReadReplyAlternate ==
    /\ Len(last.replies) <= 1
    /\ last.kind \in Answering =>
         (Len(last.replies) = 1 /\ ReplyFits(last.kind, LastReply))
    /\ last.kind \notin Answering => last.replies = <<>>
    /\ AtRead => last.kind \in (Answering \ {"close"}) \cup {"none"}

\* C8 witness: an unknown command was answered and the handler reads on
C8_Witness ==
    /\ last.kind = "unknown"
    /\ last.replies = <<UnknownReply>>
    /\ AtRead

\* C9: in every environment state a ping is served, answered with
\* {"pong": true}, leaves step_count and the scene unchanged and keeps the
\* session open.
C9_PingAnywhere ==
    /\ [](AtRead => ENABLED HandlePing)
    /\ [](last.kind = "ping" => (last.replies = <<PongReply>> /\ AtRead))
    /\ [][last'.kind = "ping" => UNCHANGED <<step_count, scene>>]_vars

\* C9 witness: a ping answered after done, with meshes in the scene
C9_Witness ==
    /\ last.kind = "ping"
    /\ step_count >= max_steps
    /\ scene.objs # <<>>

\* the path of the last line read, had it been a save request
LastPath == GetOrNone(last.line.path)

\* C10: a save command is always answered with exactly one reply, never
\* raises and never ends the session: {saved: false, error: "no path"} when
\* the path is missing or empty, otherwise {saved: true, path} or
\* {saved: false, error: <message of the failed export>} (a path that is no
\* string always fails to export); step_count is unchanged.
C10_SaveAlwaysAnswered ==
    /\ []((last.line.json = "object" /\ Branch(last.line) = "save") =>
            last.kind = "save")
    /\ [](last.kind = "save" =>
            /\ Len(last.replies) = 1
            /\ AtRead
            /\ IF ~Truthy(LastPath) THEN LastReply = NotSavedReply("no path")
               ELSE IF LastPath.t = "str"
               THEN LastReply \in {SavedReply(LastPath), NotSavedReply("RuntimeError")}
               ELSE LastReply = NotSavedReply("TypeError"))
    /\ [][last'.kind = "save" => step_count' = step_count]_vars

\* C10 witness: an export that failed was answered, mid-episode
C10_Witness ==
    /\ last.kind = "save"
    /\ last.replies = <<NotSavedReply("RuntimeError")>>
    /\ step_count > 0

\* the cmd values that name a command
CommandNames == {JStr(S_reset), JStr(S_step), JStr(S_ping), JStr(S_save), JStr(S_close)}

\* C11: a JSON object whose cmd is missing or names no command is answered
\* with {error: "unknown_cmd"}; the session stays open and the next line is
\* read and served; step_count and the scene are unchanged.
C11_UnknownCmdAnswered ==
    /\ []((last.line.json = "object" /\ GetOrNone(last.line.cmd) \notin CommandNames) =>
            (/\ last.kind = "unknown"
             /\ last.replies = <<UnknownReply>>
             /\ AtRead
             /\ ENABLED HandlePing
             /\ ENABLED HandleReset))
    /\ [][last'.kind = "unknown" => UNCHANGED <<step_count, scene>>]_vars

\* C11 witness: a request without cmd was answered mid-episode, with meshes
\* in the scene, and the handler reads on
C11_Witness ==
    /\ last.kind = "unknown"
    /\ last.line.cmd = JAbsent
    /\ step_count > 0
    /\ scene.objs # <<>>
    /\ AtRead

\* C12: a close command is answered with {closed: true} and ends the
\* session: the handler is left, so no further line of that connection is
\* read or executed and the next iteration belongs to a newly accepted
\* connection; close changes neither step_count nor the scene, and the
\* listener goes through the finally clause to accept.
C12_CloseEndsSession ==
    /\ [](last.kind = "close" =>
            (/\ last.replies = <<ClosedReply>>
             /\ ~AtRead
             /\ lpc \in {"finally", "accept"}
             /\ (lpc = "finally" => ENABLED CloseClient)
             /\ (lpc = "accept" => (client = "closed" /\ ENABLED Accept))))
    /\ [][(last.kind = "close" /\ last' # last) => (last' = NoIter /\ conns' = conns + 1)]_vars
    /\ [][last'.kind = "close" => UNCHANGED <<step_count, scene>>]_vars

\* C12 witness: a session ended by close mid-episode, the socket closed and
\* the listener back at accept
C12_Witness ==
    /\ last.kind = "close"
    /\ lpc = "accept"
    /\ client = "closed"
    /\ step_count > 0

\* the observation of a scene without meshes
ZeroObs ==
    [n_objs |-> 0, n_tris |-> 0, bbox0 |-> <<0, 0, 0>>,
     dims |-> <<0, 0, 0, 0, 0, 0, 0, 0, 0, 0, 0, 0, 0, 0, 0>>]

\* the observation of the imported asset
AssetObs ==
    [n_objs |-> 2, n_tris |-> 2, bbox0 |-> <<0, 0, -1>>,
     dims |-> <<0, 1, 3, 2, 1, 1, 0, 0, 0, 0, 0, 0, 0, 0, 0>>]

RECURSIVE PolysUpTo(_)
PolysUpTo(k) == IF k = 0 THEN 0 ELSE scene.objs[k].polys + PolysUpTo(k - 1)

\* the observation in the reply to the last reset or step
LastObs == last.replies[1].obs

\* C14: every observation returned by reset or step has a dims vector of
\* length 15 whatever the number of meshes: entry 3(k-1)+j is extent j of
\* mesh k for the first min(n, 5) meshes in enumeration order and 0 beyond
\* them; n_objs is the number of meshes and n_tris the sum of their polygon
\* counts.
C14_ObsShape ==
    (last.kind \in {"reset", "step"}) =>
        /\ Len(last.replies) = 1
        /\ Len(LastObs.dims) = 15
        /\ \A k \in 1..5, j \in 1..3 :
             LastObs.dims[3 * (k - 1) + j] =
                 IF k <= Len(scene.objs) THEN scene.objs[k].dims[j] ELSE 0
        /\ LastObs.n_objs = Len(scene.objs)
        /\ LastObs.n_tris = PolysUpTo(Len(scene.objs))

\* C14 witness: a step answered in a scene of more than five meshes, whose
\* sixth mesh has polygons and non-zero extents
C14_Witness ==
    /\ last.kind = "step"
    /\ Len(scene.objs) = 6
    /\ scene.objs[6].polys = 3
    /\ scene.objs[2].polys = 1
    /\ LastObs.n_tris = 14

\* C15: the reward of every step reply is -n_tris - 10 * max(0, n_objs - 6)
\* thousandths of the observation in the same reply, whatever the action,
\* step_count or history.
C15_RewardOfObs ==
    (last.kind = "step") =>
        last.replies[1].reward =
            (0 - LastObs.n_tris)
            - 10 * (IF LastObs.n_objs > 6 THEN LastObs.n_objs - 6 ELSE 0)

\* C15 witness: a step reply for seven meshes carries the object penalty
C15_Witness ==
    /\ last.kind = "step"
    /\ LastObs.n_objs = 7
    /\ LastObs.n_tris = 9
    /\ last.replies[1].reward = 0 - 19
    /\ step_count = 2

\* the integers 99, 4 and -1 among the actions served are outside {0,1,2,3}
OutsideActions == { a \in {PyInt(f).val : f \in {g \in ActionFields : PyInt(g).ok}} : a \notin 0..3 }

\* C16: a step whose action is an integer outside {0,1,2,3} makes no call
\* that changes the scene and leaves the scene as it was, increments
\* step_count by exactly 1, and replies with the observation of the unchanged
\* scene, the reward of that observation and done = (step_count >= 50).
C16_OtherActionsNoop ==
    [][(StepAnswered /\ LastAction'.val \notin 0..3) =>
         (/\ last'.kind = "step"
          /\ last'.calls = <<>>
          /\ scene' = scene
          /\ step_count' = step_count + 1
          /\ Len(last'.replies) = 1
          /\ last'.replies[1].obs = GetObs(scene)
          /\ last'.replies[1].reward =
                 (0 - last'.replies[1].obs.n_tris)
                 - 10 * (IF last'.replies[1].obs.n_objs > 6
                         THEN last'.replies[1].obs.n_objs - 6 ELSE 0)
          /\ last'.replies[1].done = (step_count' >= 50)
          /\ AtRead')]_vars

\* C16 witness: the second or a later step of an episode, with action 99, in
\* a scene that has a mesh; steps with 4 and -1 are served too
C16_Witness ==
    /\ last.kind = "step"
    /\ LastAction.val = 99
    /\ last.calls = <<>>
    /\ scene.objs # <<>>
    /\ step_count > 1
    /\ OutsideActions = {4, 99, -1}

\* the last iteration served a reset or a step request
RanEnv == last.line.json = "object" /\ Branch(last.line) \in {"reset", "step"}

\* C17: ending a session and accepting the next one changes neither the
\* scene nor step_count: whatever ends the handler without running a step
\* (end of stream, a line that is no JSON object, close), the finally clause
\* and the next accept leave both as they are, so the next client's first
\* command finds the scene the previous client's steps left; step_count
\* goes down only by a reset.
C17_StatePersistsAcrossSessions ==
    /\ [][(lpc # "handling" \/ (lpc' # "handling" /\ ~RanEnv'))
            => UNCHANGED <<scene, step_count, usd_path>>]_vars
    /\ [][(scene' # scene \/ step_count' # step_count)
            => (lpc = "handling" /\ RanEnv')]_vars
    /\ [][step_count' < step_count => (last'.kind = "reset" /\ step_count' = 0)]_vars

\* C17 witness: a connection has just been accepted, before its first line,
\* and finds the counter and the decimated mesh an earlier client left
C17_Witness ==
    /\ lpc = "handling"
    /\ last = NoIter
    /\ client = "open"
    /\ step_count = 2
    /\ scene.objs # <<>>
    /\ scene.objs[1].polys < StartupScene.objs[1].polys

\* a step request without an action field, and one with action 0
StepNoAction == Request(JStr(S_step), JAbsent, JAbsent)
StepZero == Request(JStr(S_step), JInt(0), JAbsent)

\* what serving a step line in the current state may do, over the ways the
\* engine calls may end: the state left, the replies written, the engine
\* calls made and whether the handler reads on
StepResults(line) ==
    LET conv == StepAction(line)
    IN  { LET it == StepIter(line, outs, conv)
          IN  [scene |-> it.scene, count |-> it.count, kind |-> it.iter.kind,
               replies |-> it.iter.replies, calls |-> it.iter.calls,
               continues |-> it.continues] :
          outs \in [1..Len(scene.objs) -> Outcomes(conv.val)] }

\* C18: a step request without an action field is handled exactly as one
\* with action 0: from every state the two have the same possible engine
\* calls, resulting states and replies, and each step served without an
\* action field is one of the outcomes of action 0 in that state, with a
\* decimate call for each mesh reached.
C18_NoActionIsZero ==
    /\ [](AtRead => StepResults(StepNoAction) = StepResults(StepZero))
    /\ [][(lpc = "handling" /\ last'.line = StepNoAction) =>
            (/\ [scene |-> scene', count |-> step_count', kind |-> last'.kind,
                 replies |-> last'.replies, calls |-> last'.calls,
                 continues |-> (lpc' = "handling")] \in StepResults(StepZero)
             /\ (last'.kind = "step" =>
                   \A k \in 1..Len(scene.objs) :
                       \E i \in 1..Len(last'.calls) : last'.calls[i] = <<"decimate", k>>))]_vars

\* C18 witness: a step without an action field was answered after it
\* decimated both meshes of the asset
C18_Witness ==
    /\ last.kind = "step"
    /\ last.line = StepNoAction
    /\ Len(scene.objs) = 2
    /\ scene.objs[1].polys = 0
    /\ scene.objs[2].polys = 0
    /\ scene.active = 2
    /\ last.calls = << <<"active", 1>>, <<"decimate", 1>>, <<"active", 2>>, <<"decimate", 2>> >>

\* the last line read was a step request
LastWasStep == last.line.json = "object" /\ Branch(last.line) = "step"

\* C19: a step is accepted in every episode state, before the first reset
\* and after done alike: an answered step has made the engine calls of its
\* action for every mesh and raised step_count by 1, and a step request goes
\* unanswered only because its action does not convert to an integer or
\* because an engine call raised out of step, never because of step_count.
C19_StepAcceptedAlways ==
    /\ [][StepAnswered =>
            (/\ last'.kind = "step" /\ LastWasStep'
             /\ step_count' = step_count + 1
             /\ (LastAction'.val \in 0..3 =>
                   \A k \in 1..Len(scene.objs) :
                       \E i \in 1..Len(last'.calls) : last'.calls[i][2] = k))]_vars
    /\ [][(lpc = "handling" /\ LastWasStep' /\ ~StepAnswered) =>
            (/\ last'.kind = "raised"
             /\ \/ ~LastAction'.ok
                \/ /\ last'.calls # <<>>
                   /\ last'.calls[Len(last'.calls)][1] = "active")]_vars

\* C19 witness: in a process that was never reset (the startup mesh is still
\* there), a step after done = true was dispatched and counted past
\* max_steps
C19_Witness ==
    /\ last.kind = "step"
    /\ step_count = max_steps + 1
    /\ done_seen
    /\ scene.objs # <<>>
    /\ scene.objs[1].dims = StartupScene.objs[1].dims
    /\ last.calls # <<>>

\* C20: a step request that is left unanswered because an exception escaped
\* the handler leaves step_count and the scene exactly as they were: the
\* scene is never changed by a step that is not counted.
\* (Fails: with action 0, making the second mesh the active object raises out
\* of step after the first mesh has been decimated.)
C20_UnansweredStepChangesNothing ==
    [][(lpc = "handling" /\ LastWasStep' /\ last'.kind = "raised")
         => UNCHANGED <<step_count, scene>>]_vars

====
